---------------------------- MODULE Spec2Model ----------------------------
(***************************************************************************)
(* A model of the PVL lexer (pvl/lexer.py) and of the part of the grammar  *)
(* (pvl/grammar.py) it reads.                                              *)
(*                                                                         *)
(* Characters are code points (ord), strings are sequences of code points. *)
(* The lexer is a generator: its position is pc, one of                    *)
(*   "start"  created, not yet pulled                                      *)
(*   "run"    executing the for loop, about to process s[i]                *)
(*   "Y1"     suspended at  t = yield(Token(lexeme))                       *)
(*   "Y2"     suspended at  yield None                                     *)
(*   "Y3"     suspended at  t = yield(t)                                   *)
(*   "done"   the for loop is exhausted (StopIteration)                    *)
(*   "raised" an exception left the generator                              *)
(***************************************************************************)
EXTENDS Integers, Sequences, FiniteSets, TLC

(***************************************************************************)
(* Characters                                                              *)
(***************************************************************************)
SP    == 32
TAB   == 9
LF    == 10
CR    == 13
VT    == 11
FF    == 12
SLASH == 47
STAR  == 42
HASH  == 35
EQUAL == 61
PLUS  == 43
MINUS == 45
ChA   == 97
ChB   == 98
Dig7  == 55
Dig8  == 56

\* Python's None where a character is expected (_prev_char, _next_char).
NoChar == 0 - 1

\* Python's None where a string is expected (end_comment, the value sent).
None == <<NoChar>>

(***************************************************************************)
(* grammar.py                                                              *)
(***************************************************************************)
spacing_characters == {SP, TAB}

format_effectors == {LF, CR, VT, FF}

\* whitespace without the vertical tab.
whitespace_NoVT == spacing_characters \cup {LF, CR, FF}

whitespace == spacing_characters \cup format_effectors

\*  & < > ' { } , [ ] = ! # ( ) % + " ; ~ |
reserved_characters ==
    {38, 60, 62, 39, 123, 125, 44, 91, 93, EQUAL, 33, HASH, 40, 41,
     37, PLUS, 34, 59, 126, 124}

numeric_start_chars == {PLUS, MINUS}

SlashStarPair == << <<SLASH, STAR>>, <<STAR, SLASH>> >>

HashPair == << <<HASH>>, <<LF>> >>

\* A multi-character pair that a caller adds to a grammar, as
\* test_custom_comment adds a pair:  g.comments = (('/*', '*/'), ('#=', '=#')).
HashEqualPair == << <<HASH, EQUAL>>, <<EQUAL, HASH>> >>

\* The comments tuple of a grammar, by the grammar's name: the base grammar
\* ("PVL"), ODLgrammar, Omnigrammar, and the base grammar given the pair
\* above ("Custom").
comments(g) ==
    IF g = "Omni" THEN <<SlashStarPair, HashPair>>
    ELSE IF g = "Custom" THEN <<SlashStarPair, HashEqualPair>>
    ELSE <<SlashStarPair>>

(***************************************************************************)
(* Keywords                                                                *)
(***************************************************************************)
\* The items of the dicts: (opening keyword, closing keyword).
group_keywords == {<<"GROUP", "END_GROUP">>, <<"BEGIN_GROUP", "END_GROUP">>}

object_keywords ==
    {<<"OBJECT", "END_OBJECT">>, <<"BEGIN_OBJECT", "END_OBJECT">>}

aggregation_keywords == group_keywords \cup object_keywords

end_statements == <<"END">>

\* reserved_keywords that takes the closing keywords only:
\* for p in aggregation_keywords.values().
reserved_keywords_ClosingOnly(g) ==
    {end_statements[k] : k \in 1..Len(end_statements)}
        \cup {p[2] : p \in aggregation_keywords}

\* reserved_keywords = set(end_statements), then |= set(p) for each item p
\* of aggregation_keywords.  ODLgrammar and Omnigrammar inherit it.
reserved_keywords(g) ==
    {end_statements[k] : k \in 1..Len(end_statements)}
        \cup UNION {{p[1], p[2]} : p \in aggregation_keywords}

(***************************************************************************)
(* char_allowed, of the code point o = ord(char) of a single character.    *)
(***************************************************************************)
\* grammar.char_allowed without the test  o == 11.
grammar_char_allowed_NoVT(o) ==
    IF \/ o > 255
       \/ o >= 0 /\ o <= 8
       \/ o >= 14 /\ o <= 31
       \/ o >= 127 /\ o <= 159
    THEN FALSE
    ELSE TRUE

grammar_char_allowed(o) ==
    IF \/ o > 255
       \/ o >= 0 /\ o <= 8
       \/ o = 11
       \/ o >= 14 /\ o <= 31
       \/ o >= 127 /\ o <= 159
    THEN FALSE
    ELSE TRUE

\* The code points that char.encode(encoding) can encode.
encodes(o, encoding) ==
    IF encoding = "ascii" THEN o < 128 ELSE o < 256

\* ODLgrammar.char_allowed that encodes to latin-1.
ODLgrammar_char_allowed_Latin1(o) == encodes(o, "latin-1")

\* ODLgrammar.char_allowed: TRUE unless encode raises UnicodeError.
ODLgrammar_char_allowed(o) == encodes(o, "ascii")

\* g.char_allowed(char): ODLgrammar overrides it, Omnigrammar does not.
char_allowed(g, o) ==
    IF g = "ODL" THEN ODLgrammar_char_allowed(o) ELSE grammar_char_allowed(o)

(***************************************************************************)
(* token.py is not part of the sources at hand.  Token(x, grammar=g)       *)
(* builds a string subclass; is_numeric() is modelled after its            *)
(* description: an optionally signed decimal integer, or a decimal float   *)
(* (digits, optional fraction, optional exponent).  The lexer asks it of   *)
(* the two-character string char + next_char only.                         *)
(***************************************************************************)
IsDigit(c) == c >= 48 /\ c <= 57

is_numeric2(c, n) ==
    \/ IsDigit(c) /\ IsDigit(n)
    \/ c \in numeric_start_chars /\ IsDigit(n)
    \/ IsDigit(c) /\ n = 46

(***************************************************************************)
(* lexer.py: helpers                                                       *)
(***************************************************************************)
\* s is 1-based here, idx is Python's 0-based index.
prev_char(s, idx) == IF idx <= 0 THEN NoChar ELSE s[idx]

next_char(s, idx) == IF idx + 2 <= Len(s) THEN s[idx + 2] ELSE NoChar

Range(q) == {q[k] : k \in 1..Len(q)}

\* str.startswith(p, at): at is a 0-based offset.
StartsWithAt(s, p, at) ==
    /\ at + Len(p) <= Len(s)
    /\ \A k \in 1..Len(p) : s[at + k] = p[k]

EndsWith(s, p) ==
    /\ Len(p) <= Len(s)
    /\ \A k \in 1..Len(p) : s[Len(s) - Len(p) + k] = p[k]

\* _prepare_comment_tuples: the three entries of the dict it returns.
single_comments(cs) ==
    [c \in {cs[k][1][1] : k \in {j \in 1..Len(cs) : Len(cs[j][1]) = 1}} |->
        LET last == CHOOSE k \in 1..Len(cs) :
                      /\ Len(cs[k][1]) = 1
                      /\ cs[k][1][1] = c
                      /\ \A j \in (k + 1)..Len(cs) :
                            ~(Len(cs[j][1]) = 1 /\ cs[j][1][1] = c)
        IN  cs[last][2]]

multi_chars(cs) ==
    UNION {Range(cs[k][1]) \cup Range(cs[k][2]) :
             k \in {j \in 1..Len(cs) : Len(cs[j][1]) # 1}}

comment_chars(cs) == DOMAIN single_comments(cs) \cup multi_chars(cs)

\* The (lexeme, in_comment, end_comment) tuple the lex_* functions return,
\* with exc naming the exception raised instead, "" when none is.
Ret(lx, ic, ec) == [lexeme |-> lx, in_comment |-> ic, end_comment |-> ec,
                    exc |-> ""]

Raise(lx, ic, ec, e) == [lexeme |-> lx, in_comment |-> ic,
                         end_comment |-> ec, exc |-> e]

\* lex_singlechar_comments that does not keep the closing character.
lex_singlechar_comments_DropCloser(char, lexeme, in_comment, end_comment, sc) ==
    IF in_comment
    THEN IF <<char>> = end_comment
         THEN Ret(lexeme, FALSE, None)
         ELSE Ret(lexeme \o <<char>>, in_comment, end_comment)
    ELSE IF char \in DOMAIN sc
         THEN Ret(lexeme \o <<char>>, TRUE, sc[char])
         ELSE Ret(lexeme, in_comment, end_comment)

\* lex_singlechar_comments that keeps the end marker when a comment closes.
lex_singlechar_comments_KeepsMarker(char, lexeme, in_comment, end_comment, sc) ==
    IF in_comment
    THEN IF <<char>> = end_comment
         THEN Ret(lexeme \o <<char>>, FALSE, end_comment)
         ELSE Ret(lexeme \o <<char>>, in_comment, end_comment)
    ELSE IF char \in DOMAIN sc
         THEN Ret(lexeme \o <<char>>, TRUE, sc[char])
         ELSE Ret(lexeme, in_comment, end_comment)

lex_singlechar_comments(char, lexeme, in_comment, end_comment, sc) ==
    IF in_comment
    THEN IF <<char>> = end_comment
         THEN Ret(lexeme \o <<char>>, FALSE, None)
         ELSE Ret(lexeme \o <<char>>, in_comment, end_comment)
    ELSE IF char \in DOMAIN sc
         THEN Ret(lexeme \o <<char>>, TRUE, sc[char])
         ELSE Ret(lexeme, in_comment, end_comment)

allowed_pairs == {SlashStarPair}

\* lex_multichar_comments that tests for the closer before the opener.
lex_multichar_comments_CloseFirst(char, prev, next, lexeme, in_comment, end_comment, cs) ==
    IF Len(cs) = 0
    THEN Raise(lexeme, in_comment, end_comment, "ValueError")
    ELSE IF \E k \in 1..Len(cs) : cs[k] \notin allowed_pairs
    THEN Raise(lexeme, in_comment, end_comment, "NotImplementedError")
    ELSE IF SlashStarPair \in Range(cs) /\ char = STAR
    THEN IF next = SLASH
         THEN Ret(lexeme \o <<STAR, SLASH>>, FALSE, None)
         ELSE IF prev = SLASH
         THEN Ret(lexeme \o <<SLASH, STAR>>, TRUE, end_comment)
         ELSE Ret(lexeme \o <<STAR>>, in_comment, end_comment)
    ELSE IF SlashStarPair \in Range(cs) /\ char = SLASH
              /\ prev # STAR /\ next # STAR
    THEN Ret(lexeme \o <<SLASH>>, in_comment, end_comment)
    ELSE Ret(lexeme, in_comment, end_comment)

\* lex_multichar_comments that appends every '/'.
lex_multichar_comments_SlashAlways(char, prev, next, lexeme, in_comment, end_comment, cs) ==
    IF Len(cs) = 0
    THEN Raise(lexeme, in_comment, end_comment, "ValueError")
    ELSE IF \E k \in 1..Len(cs) : cs[k] \notin allowed_pairs
    THEN Raise(lexeme, in_comment, end_comment, "NotImplementedError")
    ELSE IF SlashStarPair \in Range(cs) /\ char = STAR
    THEN IF prev = SLASH
         THEN Ret(lexeme \o <<SLASH, STAR>>, TRUE, end_comment)
         ELSE IF next = SLASH
         THEN Ret(lexeme \o <<STAR, SLASH>>, FALSE, None)
         ELSE Ret(lexeme \o <<STAR>>, in_comment, end_comment)
    ELSE IF SlashStarPair \in Range(cs) /\ char = SLASH
    THEN Ret(lexeme \o <<SLASH>>, in_comment, end_comment)
    ELSE Ret(lexeme, in_comment, end_comment)

\* lex_multichar_comments that looks at the table only for '*' and '/'.
lex_multichar_comments_LateCheck(char, prev, next, lexeme, in_comment, end_comment, cs) ==
    IF char \notin {STAR, SLASH}
    THEN Ret(lexeme, in_comment, end_comment)
    ELSE IF Len(cs) = 0
    THEN Raise(lexeme, in_comment, end_comment, "ValueError")
    ELSE IF \E k \in 1..Len(cs) : cs[k] \notin allowed_pairs
    THEN Raise(lexeme, in_comment, end_comment, "NotImplementedError")
    ELSE IF SlashStarPair \in Range(cs) /\ char = STAR
    THEN IF prev = SLASH
         THEN Ret(lexeme \o <<SLASH, STAR>>, TRUE, end_comment)
         ELSE IF next = SLASH
         THEN Ret(lexeme \o <<STAR, SLASH>>, FALSE, None)
         ELSE Ret(lexeme \o <<STAR>>, in_comment, end_comment)
    ELSE IF SlashStarPair \in Range(cs) /\ char = SLASH
              /\ prev # STAR /\ next # STAR
    THEN Ret(lexeme \o <<SLASH>>, in_comment, end_comment)
    ELSE Ret(lexeme, in_comment, end_comment)

lex_multichar_comments(char, prev, next, lexeme, in_comment, end_comment, cs) ==
    IF Len(cs) = 0
    THEN Raise(lexeme, in_comment, end_comment, "ValueError")
    ELSE IF \E k \in 1..Len(cs) : cs[k] \notin allowed_pairs
    THEN Raise(lexeme, in_comment, end_comment, "NotImplementedError")
    ELSE IF SlashStarPair \in Range(cs) /\ char = STAR
    THEN IF prev = SLASH
         THEN Ret(lexeme \o <<SLASH, STAR>>, TRUE, end_comment)
         ELSE IF next = SLASH
         THEN Ret(lexeme \o <<STAR, SLASH>>, FALSE, None)
         ELSE Ret(lexeme \o <<STAR>>, in_comment, end_comment)
    ELSE IF SlashStarPair \in Range(cs) /\ char = SLASH
              /\ prev # STAR /\ next # STAR
    THEN Ret(lexeme \o <<SLASH>>, in_comment, end_comment)
    ELSE Ret(lexeme, in_comment, end_comment)

lex_comment(char, prev, next, lexeme, in_comment, end_comment, cs) ==
    IF char \in multi_chars(cs)
    THEN lex_multichar_comments(char, prev, next, lexeme, in_comment,
                                end_comment, cs)
    ELSE lex_singlechar_comments(char, lexeme, in_comment, end_comment,
                                 single_comments(cs))

lex_char(char, prev, next, lexeme, in_comment, end_comment, g) ==
    IF in_comment \/ char \in comment_chars(comments(g))
    THEN lex_comment(char, prev, next, lexeme, in_comment, end_comment,
                     comments(g))
    ELSE IF char \notin whitespace
         THEN Ret(lexeme \o <<char>>, in_comment, end_comment)
         ELSE Ret(lexeme, in_comment, end_comment)


\* yields without the test  lexeme in g.reserved_characters.
yields_NoReservedLexeme(s, i, lexeme, in_comment, g) ==
    LET char == s[i + 1]
        next == next_char(s, i)
        cs   == comments(g)
    IN  /\ lexeme # <<>>
        /\ IF next = NoChar
           THEN TRUE
           ELSE IF in_comment \/ is_numeric2(char, next)
           THEN FALSE
           ELSE \/ next \in whitespace
                \/ next \in reserved_characters
                \/ \E k \in 1..Len(cs) : StartsWithAt(s, cs[k][1], i + 1)
                \/ \E k \in 1..Len(cs) : EndsWith(lexeme, cs[k][2])

\* yields without the test  s.startswith(comment openers, i + 1).
yields_NoCommentOpen(s, i, lexeme, in_comment, g) ==
    LET char == s[i + 1]
        next == next_char(s, i)
        cs   == comments(g)
    IN  /\ lexeme # <<>>
        /\ IF next = NoChar
           THEN TRUE
           ELSE IF in_comment \/ is_numeric2(char, next)
           THEN FALSE
           ELSE \/ next \in whitespace
                \/ next \in reserved_characters
                \/ \E k \in 1..Len(cs) : EndsWith(lexeme, cs[k][2])
                \/ Len(lexeme) = 1 /\ lexeme[1] \in reserved_characters

\* yields without the test  Token(char + next_char).is_numeric().
yields_NoNumeric(s, i, lexeme, in_comment, g) ==
    LET next == next_char(s, i)
        cs   == comments(g)
    IN  /\ lexeme # <<>>
        /\ IF next = NoChar
           THEN TRUE
           ELSE IF in_comment
           THEN FALSE
           ELSE \/ next \in whitespace
                \/ next \in reserved_characters
                \/ \E k \in 1..Len(cs) : StartsWithAt(s, cs[k][1], i + 1)
                \/ \E k \in 1..Len(cs) : EndsWith(lexeme, cs[k][2])
                \/ Len(lexeme) = 1 /\ lexeme[1] \in reserved_characters

\* yields that does not flush at the end of the buffer inside a comment.
yields_NoFlushInComment(s, i, lexeme, in_comment, g) ==
    LET char == s[i + 1]
        next == next_char(s, i)
        cs   == comments(g)
    IN  /\ lexeme # <<>>
        /\ IF in_comment \/ (next # NoChar /\ is_numeric2(char, next))
           THEN FALSE
           ELSE \/ next = NoChar
                \/ next \in whitespace
                \/ next \in reserved_characters
                \/ \E k \in 1..Len(cs) : StartsWithAt(s, cs[k][1], i + 1)
                \/ \E k \in 1..Len(cs) : EndsWith(lexeme, cs[k][2])
                \/ Len(lexeme) = 1 /\ lexeme[1] \in reserved_characters

\* yields without the test that the lexeme is not empty.
yields_EmptyLexeme(s, i, lexeme, in_comment, g) ==
    LET char == s[i + 1]
        next == next_char(s, i)
        cs   == comments(g)
    IN  IF next = NoChar
        THEN TRUE
        ELSE IF in_comment \/ is_numeric2(char, next)
        THEN FALSE
        ELSE \/ next \in whitespace
             \/ next \in reserved_characters
             \/ \E k \in 1..Len(cs) : StartsWithAt(s, cs[k][1], i + 1)
             \/ \E k \in 1..Len(cs) : EndsWith(lexeme, cs[k][2])
             \/ Len(lexeme) = 1 /\ lexeme[1] \in reserved_characters

\* The boundary decision of the loop body (lexer.py, lines 228-259): TRUE
\* when the lexeme left by lex_char for s[i] is yielded at this character.
yields(s, i, lexeme, in_comment, g) ==
    LET char == s[i + 1]
        next == next_char(s, i)
        cs   == comments(g)
    IN  /\ lexeme # <<>>
        /\ IF next = NoChar
           THEN TRUE
           ELSE IF in_comment \/ is_numeric2(char, next)
           THEN FALSE
           ELSE \/ next \in whitespace
                \/ next \in reserved_characters
                \/ \E k \in 1..Len(cs) : StartsWithAt(s, cs[k][1], i + 1)
                \/ \E k \in 1..Len(cs) : EndsWith(lexeme, cs[k][2])
                \/ Len(lexeme) = 1 /\ lexeme[1] \in reserved_characters

\* Token(x) raises ValueError exactly for the strings x of bad: the try
\* block of the loop body (lexer.py, lines 216-259) raises when it builds
\* or classifies such a token.
raises(s, i, lexeme, in_comment, g, bad) ==
    LET char == s[i + 1]
        next == next_char(s, i)
    IN  /\ lexeme # <<>>
        /\ IF next = NoChar
           THEN lexeme \in bad
           ELSE IF in_comment
           THEN FALSE
           ELSE IF <<char, next>> \in bad
           THEN TRUE
           ELSE IF is_numeric2(char, next)
           THEN FALSE
           ELSE yields(s, i, lexeme, in_comment, g) /\ lexeme \in bad

(***************************************************************************)
(* Token(w).is_numeric() of a whole string, modelled after the same        *)
(* description, with the radix forms of the base grammar's patterns        *)
(* binary_re, octal_re and hex_re (grammar.py, lines 96-101).              *)
(***************************************************************************)
\* The letter e or E of an exponent.
ExpLower == 101

ExpUpper == 69

\* The characters k of w with a <= k <= b are digits, and there is one.
AllDigits(w, a, b) == a <= b /\ \A k \in a..b : IsDigit(w[k])

\* The position after an optional sign at position a.
AfterSign(w, a) ==
    IF a <= Len(w) /\ w[a] \in numeric_start_chars THEN a + 1 ELSE a

\* w[a..b] is digits with an optional fraction.
IsMantissa(w, a, b) ==
    \E m \in a..b :
        /\ AllDigits(w, a, m)
        /\ \/ m = b
           \/ w[m + 1] = 46 /\ \A k \in (m + 2)..b : IsDigit(w[k])

\* w[a..b] is an exponent.
IsExponent(w, a, b) ==
    /\ a <= b
    /\ w[a] \in {ExpLower, ExpUpper}
    /\ AllDigits(w, AfterSign(w, a + 1), b)

is_decimal(w) ==
    LET a == AfterSign(w, 1)
    IN  \E m \in a..Len(w) :
            /\ IsMantissa(w, a, m)
            /\ m = Len(w) \/ IsExponent(w, m + 1, Len(w))

\* The digits a radix allows (the character classes of the patterns).
RadixDigits(radix) ==
    IF radix = <<50>> THEN {48, 49}
    ELSE IF radix = <<56>> THEN 48..55
    ELSE (48..57) \cup (65..70) \cup (97..102) \cup {124}

\* [sign]radix#non_decimal_integer#
is_nondecimal(w) ==
    LET a == AfterSign(w, 1)
    IN  \E radix \in {<<50>>, <<56>>, <<49, 54>>} :
            LET h == a + Len(radix)
            IN  /\ h + 2 <= Len(w)
                /\ SubSeq(w, a, h - 1) = radix
                /\ w[h] = HASH
                /\ w[Len(w)] = HASH
                /\ \A k \in (h + 1)..(Len(w) - 1) : w[k] \in RadixDigits(radix)

is_numeric(w) == is_decimal(w) \/ is_nondecimal(w)

(***************************************************************************)
(* LexerError                                                              *)
(***************************************************************************)
\* The end of the slice doc[0:pos], as str.count and str.rfind take it.
slice_end(doc, pos) ==
    IF pos < 0
    THEN IF pos + Len(doc) < 0 THEN 0 ELSE pos + Len(doc)
    ELSE IF pos > Len(doc) THEN Len(doc) ELSE pos

\* The occurrences of c among the first n characters of doc.
RECURSIVE count_upto(_, _, _)
count_upto(doc, c, n) ==
    IF n = 0 THEN 0
    ELSE count_upto(doc, c, n - 1) + (IF doc[n] = c THEN 1 ELSE 0)

\* doc.count(c, 0, pos)
count(doc, c, pos) == count_upto(doc, c, slice_end(doc, pos))

\* The highest 0-based index below n at which doc holds c, or -1.
RECURSIVE rfind_upto(_, _, _)
rfind_upto(doc, c, n) ==
    IF n = 0 THEN 0 - 1
    ELSE IF doc[n] = c THEN n - 1
    ELSE rfind_upto(doc, c, n - 1)

\* The lowest 0-based index below n at which doc holds c, or -1.
find_upto(doc, c, n) ==
    IF \E k \in 1..n : doc[k] = c
    THEN (CHOOSE k \in 1..n : doc[k] = c /\ \A j \in 1..(k - 1) : doc[j] # c) - 1
    ELSE 0 - 1

\* rfind that searches from the start: doc.find(c, 0, pos).
rfind_First(doc, c, pos) == find_upto(doc, c, slice_end(doc, pos))

\* doc.rfind(c, 0, pos)
rfind(doc, c, pos) == rfind_upto(doc, c, slice_end(doc, pos))

\* str(n) of a natural number, as code points.
RECURSIVE digits(_)
digits(n) ==
    IF n < 10 THEN <<48 + n>>
    ELSE Append(digits(n \div 10), 48 + (n % 10))

\* str(n) of an integer.
str(n) == IF n < 0 THEN <<MINUS>> \o digits(0 - n) ELSE digits(n)

\* f'{msg}: line {lineno} column {colno} (char {pos})'
errmsg(msg, lineno, colno, pos) ==
    msg \o <<58, 32, 108, 105, 110, 101, 32>> \o str(lineno)
        \o <<32, 99, 111, 108, 117, 109, 110, 32>> \o str(colno)
        \o <<32, 40, 99, 104, 97, 114, 32>> \o str(pos) \o <<41>>

\* LexerError(msg, doc, pos): the fields __init__ sets, with args the
\* message handed to ValueError.__init__.
LexerError(msg, doc, pos) ==
    LET lineno == count(doc, LF, pos) + 1
        colno  == pos - rfind(doc, LF, pos)
    IN  [msg |-> msg, doc |-> doc, pos |-> pos, lineno |-> lineno,
         colno |-> colno, args |-> errmsg(msg, lineno, colno, pos)]

\* reduce without the unformatted message: it hands on str(self).
reduce_Formatted(e) == <<e.args, e.doc, e.pos>>

\* __reduce__: the arguments from which the error is rebuilt.
reduce(e) == <<e.msg, e.doc, e.pos>>

\* What unpickling does with the result of __reduce__.
rebuild(a) == LexerError(a[1], a[2], a[3])

\* No error object.
NoError == [msg |-> <<>>, doc |-> <<>>, pos |-> 0, lineno |-> 0,
            colno |-> 0, args |-> <<>>]

\* str(err) of the ValueError a failing Token raises.
TokenErrorMsg == <<ChB>>

\* list(lexer(s, g)): the tokens a consumer that only pulls receives, and
\* the exception that ends the scan, "" when the for loop is exhausted.
RECURSIVE scan(_, _, _, _, _, _, _)
scan(s, g, i, lexeme, in_comment, end_comment, acc) ==
    IF i >= Len(s)
    THEN [toks |-> acc, exc |-> ""]
    ELSE LET r == lex_char(s[i + 1], prev_char(s, i), next_char(s, i),
                           lexeme, in_comment, end_comment, g)
         IN  IF r.exc # ""
             THEN [toks |-> acc, exc |-> r.exc]
             ELSE IF yields(s, i, r.lexeme, r.in_comment, g)
             THEN scan(s, g, i + 1, <<>>, r.in_comment, r.end_comment,
                       Append(acc, r.lexeme))
             ELSE scan(s, g, i + 1, r.lexeme, r.in_comment, r.end_comment,
                       acc)

list_lexer(s, g) == scan(s, g, 0, <<>>, FALSE, None, <<>>)

(***************************************************************************)
(* Bounds and inputs                                                       *)
(***************************************************************************)
MaxLen == 3

MaxSend == 2

Alphabet == {ChA, SP, EQUAL, HASH, SLASH, STAR}

\* The values a consumer pushes back.
PushVals == {<<ChA>>, <<ChB, ChB>>}

\* The token at which the nested consumer loop stops (test_lexer_recurse).
Sentinel == <<ChA>>

Docs(A, n) == UNION {[1..k -> A] : k \in 0..n}

(***************************************************************************)
(* State                                                                   *)
(***************************************************************************)
VARIABLES
    s,            \* the document
    g,            \* the grammar's name
    i,            \* index of the loop iteration (0-based)
    lexeme,       \* the accumulated lexeme
    in_comment,   \* inside a comment
    end_comment,  \* the closer of the single-character comment, or None
    t,            \* the value sent into the generator, or None
    pc,           \* the generator's position
    ret,          \* what the consumer's last call returned
    out,          \* the tokens the scan has yielded, in order
    by,           \* for each token of out, the consumer loop that pulled it
    loop,         \* the consumer loop that made the last pull
    sent,         \* the value of the consumer's last send
    round,        \* push/pull rounds completed at this suspension point
    credit,       \* the number of sends the consumer may still make
    bad,          \* the strings for which Token raises ValueError
    err,          \* the last LexerError built, or NoError
    rebuilt,      \* the error rebuilt from err's __reduce__, or NoError
    peer,         \* a second lexer that shares the grammar g
    ch,           \* the code point last given to char_allowed
    allowed,      \* what that call returned
    call          \* the last direct call of a lex_* function and its result

vars == <<s, g, i, lexeme, in_comment, end_comment, t, pc, ret, out, by,
          loop, sent, round, credit, bad, err, rebuilt, peer, ch, allowed,
          call>>

\* What the lexer's consumer calls leave alone.
aux == <<bad, err, rebuilt, peer, ch, allowed, call>>

Pending == [kind |-> "pending", val |-> None]

RetNone == [kind |-> "None", val |-> None]

RetToken(x) == [kind |-> "token", val |-> x]

RetValue(x) == [kind |-> "value", val |-> x]

RetStop == [kind |-> "StopIteration", val |-> None]

RetExc(e) == [kind |-> e, val |-> None]

\* No direct call was made.
NoCall == [fn |-> "", char |-> NoChar, prev |-> NoChar, next |-> NoChar,
           lexeme |-> <<>>, in_comment |-> FALSE, end_comment |-> None,
           comments |-> <<>>, res |-> Ret(<<>>, FALSE, None)]

\* A lexer the program has not created.
NoPeer == [s |-> <<>>, i |-> 0, lexeme |-> <<>>, in_comment |-> FALSE,
           end_comment |-> None, pc |-> "absent", out |-> <<>>]

\* The state of a generator that lexer(s, g) has just returned.
InitGenerator ==
    /\ i = 0
    /\ lexeme = <<>>
    /\ in_comment = FALSE
    /\ end_comment = None
    /\ t = None
    /\ pc = "start"
    /\ ret = Pending
    /\ out = <<>>
    /\ by = <<>>
    /\ loop = "outer"
    /\ sent = None
    /\ round = 0
    /\ err = NoError
    /\ rebuilt = NoError
    /\ ch = NoChar
    /\ allowed = FALSE

\* One lexer whose Token never raises.
InitLexer ==
    /\ InitGenerator
    /\ bad = {}
    /\ peer = NoPeer
    /\ call = NoCall

Init ==
    /\ s \in Docs(Alphabet, MaxLen)
    /\ g \in {"PVL", "Omni"}
    /\ credit = MaxSend
    /\ InitLexer

(***************************************************************************)
(* The consumer: an outer loop over the generator that may hand it to a    *)
(* nested loop, which pulls until it receives Sentinel or the stream ends  *)
(* (test_lexer_recurse); after that the outer loop goes on pulling.        *)
(***************************************************************************)
NestedEnded == ret = RetToken(Sentinel) \/ ret = RetStop

\* The loop pulling next when loop c makes the call.
MayPull(c) ==
    IF c = "inner"
    THEN \/ loop = "outer" /\ pc \in {"Y1", "Y3"}
         \/ loop = "inner" /\ ~NestedEnded
    ELSE \/ loop \in {"outer", "after"}
         \/ loop = "inner" /\ NestedEnded

LoopAfter(c) ==
    IF c = "inner" THEN "inner"
    ELSE IF loop = "outer" THEN "outer" ELSE "after"

(***************************************************************************)
(* The consumer calls next(): the generator resumes.                       *)
(***************************************************************************)
\* NextCall with  lexeme = ''  done only when nothing was pushed back.
NextCall_KeepLexeme(c) ==
    /\ pc \in {"start", "Y1", "Y2", "Y3", "done", "raised"}
    /\ MayPull(c)
    /\ loop' = LoopAfter(c)
    /\ IF pc = "start"
       THEN /\ pc' = "run"
            /\ ret' = Pending
            /\ UNCHANGED <<i, lexeme, t, round>>
       ELSE IF pc \in {"Y1", "Y3"}
       THEN /\ t' = None
            /\ lexeme' = IF pc = "Y1" THEN <<>> ELSE lexeme
            /\ i' = i + 1
            /\ pc' = "run"
            /\ ret' = Pending
            /\ round' = 0
       ELSE IF pc = "Y2"
       THEN /\ pc' = "Y3"
            /\ ret' = RetValue(t)
            /\ round' = round + 1
            /\ UNCHANGED <<i, lexeme, t>>
       ELSE /\ ret' = RetStop
            /\ UNCHANGED <<i, lexeme, t, pc, round>>
    /\ UNCHANGED <<s, g, in_comment, end_comment, out, by, sent, credit>>
    /\ UNCHANGED aux

\* NextCall with the nested loop iterating a lexer of its own, from the start
\* of the document.
NextCall_Restart(c) ==
    /\ pc \in {"start", "Y1", "Y2", "Y3", "done", "raised"}
    /\ MayPull(c)
    /\ loop' = LoopAfter(c)
    /\ IF pc = "start"
       THEN /\ pc' = "run"
            /\ ret' = Pending
            /\ UNCHANGED <<i, lexeme, t, round>>
       ELSE IF pc \in {"Y1", "Y3"}
       THEN /\ t' = None
            /\ lexeme' = <<>>
            /\ i' = IF c = "inner" /\ loop = "outer" THEN 0 ELSE i + 1
            /\ pc' = "run"
            /\ ret' = Pending
            /\ round' = 0
       ELSE IF pc = "Y2"
       THEN /\ pc' = "Y3"
            /\ ret' = RetValue(t)
            /\ round' = round + 1
            /\ UNCHANGED <<i, lexeme, t>>
       ELSE /\ ret' = RetStop
            /\ UNCHANGED <<i, lexeme, t, pc, round>>
    /\ UNCHANGED <<s, g, in_comment, end_comment, out, by, sent, credit>>
    /\ UNCHANGED aux

\* NextCall that resumes the scan at the character it yielded at.
NextCall_NoAdvance(c) ==
    /\ pc \in {"start", "Y1", "Y2", "Y3", "done", "raised"}
    /\ MayPull(c)
    /\ loop' = LoopAfter(c)
    /\ IF pc = "start"
       THEN /\ pc' = "run"
            /\ ret' = Pending
            /\ UNCHANGED <<i, lexeme, t, round>>
       ELSE IF pc \in {"Y1", "Y3"}
       THEN /\ t' = None
            /\ lexeme' = <<>>
            /\ pc' = "run"
            /\ ret' = Pending
            /\ round' = 0
            /\ UNCHANGED i
       ELSE IF pc = "Y2"
       THEN /\ pc' = "Y3"
            /\ ret' = RetValue(t)
            /\ round' = round + 1
            /\ UNCHANGED <<i, lexeme, t>>
       ELSE /\ ret' = RetStop
            /\ UNCHANGED <<i, lexeme, t, pc, round>>
    /\ UNCHANGED <<s, g, in_comment, end_comment, out, by, sent, credit>>
    /\ UNCHANGED aux

NextCall(c) ==
    /\ pc \in {"start", "Y1", "Y2", "Y3", "done", "raised"}
    /\ MayPull(c)
    /\ loop' = LoopAfter(c)
    /\ IF pc = "start"
       THEN /\ pc' = "run"
            /\ ret' = Pending
            /\ UNCHANGED <<i, lexeme, t, round>>
       ELSE IF pc \in {"Y1", "Y3"}
       THEN \* t = None ends the while loop; lexeme = ''; next iteration
            /\ t' = None
            /\ lexeme' = <<>>
            /\ i' = i + 1
            /\ pc' = "run"
            /\ ret' = Pending
            /\ round' = 0
       ELSE IF pc = "Y2"
       THEN \* resumes at  yield None  and suspends at  t = yield(t)
            /\ pc' = "Y3"
            /\ ret' = RetValue(t)
            /\ round' = round + 1
            /\ UNCHANGED <<i, lexeme, t>>
       ELSE \* a finished generator raises StopIteration
            /\ ret' = RetStop
            /\ UNCHANGED <<i, lexeme, t, pc, round>>
    /\ UNCHANGED <<s, g, in_comment, end_comment, out, by, sent, credit>>
    /\ UNCHANGED aux

(***************************************************************************)
(* The consumer calls send(v) with v not None (the outer loop does).       *)
(***************************************************************************)
\* SendCall without the  yield None : the send itself returns the value.
SendCall_NoYieldNone(v) ==
    /\ pc \in {"Y1", "Y2", "Y3"}
    /\ MayPull("outer")
    /\ loop' = LoopAfter("outer")
    /\ credit > 0
    /\ credit' = credit - 1
    /\ sent' = v
    /\ IF pc = "Y2"
       THEN /\ pc' = "Y3"
            /\ ret' = RetValue(t)
            /\ UNCHANGED t
       ELSE /\ t' = v
            /\ pc' = "Y3"
            /\ ret' = RetValue(v)
    /\ UNCHANGED <<s, g, i, lexeme, in_comment, end_comment, out, by, round>>
    /\ UNCHANGED aux

\* SendCall with a single push-back slot that a second push-back at the same
\* suspension point does not overwrite.
SendCall_SingleSlot(v) ==
    /\ pc \in {"Y1", "Y2", "Y3"}
    /\ MayPull("outer")
    /\ loop' = LoopAfter("outer")
    /\ credit > 0
    /\ credit' = credit - 1
    /\ sent' = v
    /\ IF pc = "Y2"
       THEN /\ pc' = "Y3"
            /\ ret' = RetValue(t)
            /\ UNCHANGED t
       ELSE /\ t' = IF pc = "Y3" THEN t ELSE v
            /\ pc' = "Y2"
            /\ ret' = RetNone
    /\ UNCHANGED <<s, g, i, lexeme, in_comment, end_comment, out, by, round>>
    /\ UNCHANGED aux

\* SendCall whose value replaces the pushed-back one at  yield None .
SendCall_Overwrite(v) ==
    /\ pc \in {"Y1", "Y2", "Y3"}
    /\ MayPull("outer")
    /\ loop' = LoopAfter("outer")
    /\ credit > 0
    /\ credit' = credit - 1
    /\ sent' = v
    /\ IF pc = "Y2"
       THEN /\ pc' = "Y3"
            /\ ret' = RetValue(v)
            /\ t' = v
       ELSE /\ t' = v
            /\ pc' = "Y2"
            /\ ret' = RetNone
    /\ UNCHANGED <<s, g, i, lexeme, in_comment, end_comment, out, by, round>>
    /\ UNCHANGED aux

SendCall(v) ==
    /\ pc \in {"Y1", "Y2", "Y3"}
    /\ MayPull("outer")
    /\ loop' = LoopAfter("outer")
    /\ credit > 0
    /\ credit' = credit - 1
    /\ sent' = v
    /\ IF pc = "Y2"
       THEN \* the value of  yield None  is dropped;  t = yield(t)  follows
            /\ pc' = "Y3"
            /\ ret' = RetValue(t)
            /\ UNCHANGED t
       ELSE \* t = v is not None: the while loop runs into  yield None
            /\ t' = v
            /\ pc' = "Y2"
            /\ ret' = RetNone
    /\ UNCHANGED <<s, g, i, lexeme, in_comment, end_comment, out, by, round>>
    /\ UNCHANGED aux

(***************************************************************************)
(* One iteration of  for i, char in enumerate(s)  up to its yield,         *)
(* continue or raise; the exhausted loop ends the generator.               *)
(***************************************************************************)
\* Step that drops the lexeme Token refuses and goes on scanning.
Step_Recover ==
    /\ pc = "run"
    /\ IF i >= Len(s)
       THEN /\ pc' = "done"
            /\ ret' = RetStop
            /\ UNCHANGED <<i, lexeme, in_comment, end_comment, out, by, err>>
       ELSE LET r == lex_char(s[i + 1], prev_char(s, i), next_char(s, i),
                              lexeme, in_comment, end_comment, g)
            IN  IF r.exc # ""
                THEN /\ pc' = "raised"
                     /\ ret' = RetExc(r.exc)
                     /\ UNCHANGED <<i, lexeme, in_comment, end_comment,
                                    out, by, err>>
                ELSE /\ in_comment' = r.in_comment
                     /\ end_comment' = r.end_comment
                     /\ IF raises(s, i, r.lexeme, r.in_comment, g, bad)
                        THEN /\ lexeme' = <<>>
                             /\ i' = i + 1
                             /\ UNCHANGED <<pc, ret, out, by, err>>
                        ELSE IF yields(s, i, r.lexeme, r.in_comment, g)
                        THEN /\ lexeme' = r.lexeme
                             /\ pc' = "Y1"
                             /\ ret' = RetToken(r.lexeme)
                             /\ out' = Append(out, r.lexeme)
                             /\ by' = Append(by, loop)
                             /\ UNCHANGED <<i, err>>
                        ELSE /\ lexeme' = r.lexeme
                             /\ i' = i + 1
                             /\ UNCHANGED <<pc, ret, out, by, err>>
    /\ UNCHANGED <<s, g, t, loop, sent, round, credit>>
    /\ UNCHANGED <<bad, rebuilt, peer, ch, allowed, call>>

Step ==
    /\ pc = "run"
    /\ IF i >= Len(s)
       THEN /\ pc' = "done"
            /\ ret' = RetStop
            /\ UNCHANGED <<i, lexeme, in_comment, end_comment, out, by, err>>
       ELSE LET r == lex_char(s[i + 1], prev_char(s, i), next_char(s, i),
                              lexeme, in_comment, end_comment, g)
            IN  IF r.exc # ""
                THEN /\ pc' = "raised"
                     /\ ret' = RetExc(r.exc)
                     /\ UNCHANGED <<i, lexeme, in_comment, end_comment,
                                    out, by, err>>
                ELSE /\ lexeme' = r.lexeme
                     /\ in_comment' = r.in_comment
                     /\ end_comment' = r.end_comment
                     /\ IF raises(s, i, r.lexeme, r.in_comment, g, bad)
                        THEN \* except ValueError as err: raise LexerError
                             /\ pc' = "raised"
                             /\ ret' = RetExc("LexerError")
                             /\ err' = LexerError(TokenErrorMsg, s,
                                                  i - Len(r.lexeme))
                             /\ UNCHANGED <<i, out, by>>
                        ELSE IF yields(s, i, r.lexeme, r.in_comment, g)
                        THEN /\ pc' = "Y1"
                             /\ ret' = RetToken(r.lexeme)
                             /\ out' = Append(out, r.lexeme)
                             /\ by' = Append(by, loop)
                             /\ UNCHANGED <<i, err>>
                        ELSE /\ i' = i + 1
                             /\ UNCHANGED <<pc, ret, out, by, err>>
    /\ UNCHANGED <<s, g, t, loop, sent, round, credit>>
    /\ UNCHANGED <<bad, rebuilt, peer, ch, allowed, call>>

Next ==
    \/ \E c \in {"outer", "inner"} : NextCall(c)
    \/ \E v \in PushVals : SendCall(v)
    \/ Step

Spec == Init /\ [][Next]_vars

(***************************************************************************)
(* Specifications over particular documents.  Their consumer pushes back   *)
(* at most once.                                                           *)
(***************************************************************************)
MaxPlainLen == 4

\* Whitespace and ordinary characters only.
AlphaPlain == {ChA, SP, TAB, LF, CR, VT, FF}

InitPlain ==
    /\ s \in Docs(AlphaPlain, MaxPlainLen)
    /\ g = "PVL"
    /\ credit = 1
    /\ InitLexer

SpecPlain == InitPlain /\ [][Next]_vars

MaxReservedLen == 4

\* Reserved characters, a sign, a digit, text, whitespace, comment characters.
AlphaReserved == {ChA, SP, EQUAL, PLUS, Dig7, SLASH, STAR}

InitReserved ==
    /\ s \in Docs(AlphaReserved, MaxReservedLen)
    /\ g = "PVL"
    /\ credit = 1
    /\ InitLexer

SpecReserved == InitReserved /\ [][Next]_vars

MaxCommentLen == 6

\* The two comment characters, text, whitespace.
AlphaComment == {ChA, SP, SLASH, STAR}

InitComment ==
    /\ s \in Docs(AlphaComment, MaxCommentLen)
    /\ g = "PVL"
    /\ credit = 1
    /\ InitLexer

SpecComment == InitComment /\ [][Next]_vars

MaxHashLen == 5

\* No '/' and no '*': the '#' comment, text, whitespace, a reserved character.
AlphaHash == {ChA, SP, LF, HASH, EQUAL}

InitHash ==
    /\ s \in Docs(AlphaHash, MaxHashLen)
    /\ g = "Omni"
    /\ credit = 1
    /\ InitLexer

SpecHash == InitHash /\ [][Next]_vars

MaxOmniLen == 4

\* The characters of both kinds of comment, and text.
AlphaOmni == {ChA, LF, HASH, SLASH, STAR}

InitOmni ==
    /\ s \in Docs(AlphaOmni, MaxOmniLen)
    /\ g = "Omni"
    /\ credit = 1
    /\ InitLexer

SpecOmni == InitOmni /\ [][Next]_vars

MaxSignLen == 4

\* The two signs, a digit, text, a reserved character and the
\* comment characters.
AlphaSign == {ChA, EQUAL, PLUS, MINUS, Dig7, SLASH, STAR}

InitSign ==
    /\ s \in Docs(AlphaSign, MaxSignLen)
    /\ g = "PVL"
    /\ credit = 1
    /\ InitLexer

SpecSign == InitSign /\ [][Next]_vars

MaxNumericLen == 4

\* Digits, the exponent letter, a sign, the radix marker, whitespace.
AlphaNumeric == {Dig7, Dig8, ExpLower, PLUS, HASH, SP}

InitNumeric ==
    /\ s \in Docs(AlphaNumeric, MaxNumericLen)
    /\ g = "PVL"
    /\ credit = 1
    /\ InitLexer

SpecNumeric == InitNumeric /\ [][Next]_vars

MaxErrorLen == 4

\* Text, whitespace, a line end, a reserved character.
AlphaError == {ChA, SP, LF, EQUAL}

\* The strings that Token refuses, one choice for each document: a lexeme,
\* a longer lexeme, a reserved character, a pair of characters it is asked
\* to classify; or none.
BadSets == {{}, {<<ChA>>}, {<<ChA, ChA>>}, {<<EQUAL>>}, {<<ChA, LF>>}}

InitError ==
    /\ s \in Docs(AlphaError, MaxErrorLen)
    /\ g = "PVL"
    /\ credit = 1
    /\ InitGenerator
    /\ bad \in BadSets
    /\ peer = NoPeer
    /\ call = NoCall

SpecError == InitError /\ [][Next]_vars

(***************************************************************************)
(* LexerError built by a caller and rebuilt from its __reduce__.           *)
(***************************************************************************)
MaxDocLen == 4

\* Text and line ends.
AlphaLines == {ChA, LF}

\* The messages given to LexerError.
Msgs == {<<>>, <<ChB>>}

\* The offsets given to LexerError: those of the document, its length, and
\* the one before its start.
Offsets(d) == (0 - 1)..Len(d)

InitLexerError ==
    /\ s \in Docs(AlphaLines, MaxDocLen)
    /\ g = "PVL"
    /\ credit = 0
    /\ InitLexer

\* LexerError(msg, s, pos)
Construct(msg, pos) ==
    /\ err' = LexerError(msg, s, pos)
    /\ rebuilt' = NoError
    /\ UNCHANGED <<s, g, i, lexeme, in_comment, end_comment, t, pc, ret, out,
                   by, loop, sent, round, credit, bad, peer, ch, allowed,
                   call>>

\* cls, args = err.__reduce__(); cls(*args)
Reduce ==
    /\ err # NoError
    /\ rebuilt' = rebuild(reduce(err))
    /\ UNCHANGED <<s, g, i, lexeme, in_comment, end_comment, t, pc, ret, out,
                   by, loop, sent, round, credit, bad, err, peer, ch,
                   allowed, call>>

NextLexerError ==
    \/ \E msg \in Msgs, pos \in Offsets(s) : Construct(msg, pos)
    \/ Reduce

SpecLexerError == InitLexerError /\ [][NextLexerError]_vars

MaxCustomLen == 3

\* The characters of the added pair, text, whitespace.
AlphaCustom == {ChA, SP, HASH, EQUAL}

InitCustom ==
    /\ s \in Docs(AlphaCustom, MaxCustomLen)
    /\ g = "Custom"
    /\ credit = 1
    /\ InitLexer

SpecCustom == InitCustom /\ [][Next]_vars

(***************************************************************************)
(* Two lexers that share the grammar g: the one above and peer, whose      *)
(* consumer only pulls.                                                    *)
(***************************************************************************)
MaxSharedLen == 2

\* Text, whitespace and the '#' on which the grammars differ.
AlphaShared == {ChA, SP, HASH}

InitShared ==
    /\ s \in Docs(AlphaShared, MaxSharedLen)
    /\ g \in {"PVL", "Omni"}
    /\ credit = 1
    /\ InitGenerator
    /\ bad = {}
    /\ call = NoCall
    /\ \E d \in Docs(AlphaShared, MaxSharedLen) :
          peer = [NoPeer EXCEPT !.s = d, !.pc = "start"]

\* PeerPull that registers the '#' comment in the grammar it was given.
PeerPull_ConfiguresGrammar ==
    /\ peer.pc \in {"start", "Y1"}
    /\ peer' = IF peer.pc = "start"
               THEN [peer EXCEPT !.pc = "run"]
               ELSE [peer EXCEPT !.pc = "run", !.lexeme = <<>>, !.i = @ + 1]
    /\ g' = "Omni"
    /\ UNCHANGED <<s, i, lexeme, in_comment, end_comment, t, pc, ret, out,
                   by, loop, sent, round, credit, bad, err, rebuilt, ch,
                   allowed, call>>

\* next() on the peer: it starts, or resumes after the token it yielded.
PeerPull ==
    /\ peer.pc \in {"start", "Y1"}
    /\ peer' = IF peer.pc = "start"
               THEN [peer EXCEPT !.pc = "run"]
               ELSE [peer EXCEPT !.pc = "run", !.lexeme = <<>>, !.i = @ + 1]
    /\ UNCHANGED <<s, g, i, lexeme, in_comment, end_comment, t, pc, ret, out,
                   by, loop, sent, round, credit, bad, err, rebuilt, ch,
                   allowed, call>>

\* One iteration of the peer's for loop.
PeerStep ==
    /\ peer.pc = "run"
    /\ peer' =
         IF peer.i >= Len(peer.s)
         THEN [peer EXCEPT !.pc = "done"]
         ELSE LET r == lex_char(peer.s[peer.i + 1], prev_char(peer.s, peer.i),
                                next_char(peer.s, peer.i), peer.lexeme,
                                peer.in_comment, peer.end_comment, g)
              IN  IF r.exc # ""
                  THEN [peer EXCEPT !.pc = "raised"]
                  ELSE IF yields(peer.s, peer.i, r.lexeme, r.in_comment, g)
                  THEN [peer EXCEPT !.lexeme = r.lexeme,
                                    !.in_comment = r.in_comment,
                                    !.end_comment = r.end_comment,
                                    !.pc = "Y1",
                                    !.out = Append(@, r.lexeme)]
                  ELSE [peer EXCEPT !.lexeme = r.lexeme,
                                    !.in_comment = r.in_comment,
                                    !.end_comment = r.end_comment,
                                    !.i = @ + 1]
    /\ UNCHANGED <<s, g, i, lexeme, in_comment, end_comment, t, pc, ret, out,
                   by, loop, sent, round, credit, bad, err, rebuilt, ch,
                   allowed, call>>

NextShared ==
    \/ Next
    \/ PeerPull
    \/ PeerStep

SpecShared == InitShared /\ [][NextShared]_vars

(***************************************************************************)
(* A grammar and calls of its char_allowed.                                *)
(***************************************************************************)
\* The highest code point given to char_allowed.
MaxCodePoint == 300

InitGrammar ==
    /\ s = <<>>
    /\ g \in {"PVL", "ODL", "Omni"}
    /\ credit = 0
    /\ InitLexer

\* allowed = g.char_allowed(chr(o))
CharAllowed(o) ==
    /\ ch' = o
    /\ allowed' = char_allowed(g, o)
    /\ UNCHANGED <<s, g, i, lexeme, in_comment, end_comment, t, pc, ret, out,
                   by, loop, sent, round, credit, bad, err, rebuilt, peer,
                   call>>

NextGrammar == \E o \in 0..MaxCodePoint : CharAllowed(o)

SpecGrammar == InitGrammar /\ [][NextGrammar]_vars

(***************************************************************************)
(* Direct calls of the two comment matchers, as the unit tests call them.  *)
(***************************************************************************)
\* The longest lexeme handed to a matcher.
MaxLexemeLen == 1

\* The characters, neighbours (None when there is none), lexemes and end
\* markers handed to the matchers.
CallChars == {SLASH, STAR, HASH, LF, ChA}

CallNeighbours == {SLASH, STAR, ChA, NoChar}

CallLexemes == Docs({ChA, SLASH}, MaxLexemeLen)

CallEndMarkers == {None, <<LF>>, <<ChB>>}

\* {'k': 'v'} of test_lex_singlechar_comments, as the pair it comes from.
KeyValuePair == << <<ChA>>, <<ChB>> >>

\* The comments tuples handed to lex_multichar_comments: the default, the
\* empty tuple and the tuple with ('#', newline) of the test, and others
\* with a pair that is not the allowed one.
MultiTables ==
    {<<SlashStarPair>>, <<>>, <<SlashStarPair, HashPair>>,
     <<HashPair>>, <<HashEqualPair, SlashStarPair>>}

\* The tuples whose single-character pairs make the dict handed to
\* lex_singlechar_comments.
SingleTables == {<<>>, <<HashPair>>, <<KeyValuePair>>,
                 <<HashPair, KeyValuePair>>}

\* The arguments of a call that has not been made yet.
PendingCalls ==
    {[fn |-> "", char |-> c, prev |-> p, next |-> n, lexeme |-> lx,
      in_comment |-> ic, end_comment |-> ec, comments |-> cs,
      res |-> Ret(<<>>, FALSE, None)] :
        c \in CallChars, p \in CallNeighbours, n \in CallNeighbours,
        lx \in CallLexemes, ic \in BOOLEAN, ec \in CallEndMarkers,
        cs \in MultiTables \cup SingleTables}

InitCalls ==
    /\ s = <<>>
    /\ g = "PVL"
    /\ credit = 0
    /\ InitGenerator
    /\ bad = {}
    /\ peer = NoPeer
    /\ call \in PendingCalls

\* lex_multichar_comments(char, prev_char, next_char, lexeme, in_comment,
\*                        end_comment, comments=comments)
CallMultichar ==
    /\ call.fn = ""
    /\ call.comments \in MultiTables
    /\ call' = [call EXCEPT
                  !.fn = "lex_multichar_comments",
                  !.res = lex_multichar_comments(
                              call.char, call.prev, call.next, call.lexeme,
                              call.in_comment, call.end_comment,
                              call.comments)]
    /\ UNCHANGED <<s, g, i, lexeme, in_comment, end_comment, t, pc, ret, out,
                   by, loop, sent, round, credit, bad, err, rebuilt, peer,
                   ch, allowed>>

\* lex_singlechar_comments(char, lexeme, in_comment, end_comment, comments)
\* with the dict of the single-character pairs of the tuple.
CallSinglechar ==
    /\ call.fn = ""
    /\ call.comments \in SingleTables
    /\ call' = [call EXCEPT
                  !.fn = "lex_singlechar_comments",
                  !.res = lex_singlechar_comments(
                              call.char, call.lexeme, call.in_comment,
                              call.end_comment,
                              single_comments(call.comments))]
    /\ UNCHANGED <<s, g, i, lexeme, in_comment, end_comment, t, pc, ret, out,
                   by, loop, sent, round, credit, bad, err, rebuilt, peer,
                   ch, allowed>>

NextCalls ==
    \/ CallMultichar
    \/ CallSinglechar

SpecCalls == InitCalls /\ [][NextCalls]_vars

(***************************************************************************)
(* A consumer that only pulls.  Its for loop calls next() again after      *)
(* every token and the generator, once resumed, runs to its next yield or  *)
(* to its end, so a step that stays possible is taken: weak fairness.      *)
(***************************************************************************)
MaxPullLen == 4

\* Text, whitespace, a reserved character, the comment characters.
AlphaPull == {ChA, SP, EQUAL, SLASH, STAR}

InitPull ==
    /\ s \in Docs(AlphaPull, MaxPullLen)
    /\ g = "PVL"
    /\ credit = 0
    /\ InitLexer

NextPull ==
    \/ \E c \in {"outer", "inner"} : NextCall(c)
    \/ Step

SpecPull == InitPull /\ [][NextPull]_vars /\ WF_vars(NextPull)

(***************************************************************************)
(* A consumer that may push back several times in a row.                   *)
(***************************************************************************)
MaxChainLen == 3

\* The number of sends of the consumer.
MaxChainSend == 3

\* Text and whitespace.
AlphaChain == {ChA, SP}

InitChain ==
    /\ s \in Docs(AlphaChain, MaxChainLen)
    /\ g = "PVL"
    /\ credit = MaxChainSend
    /\ InitLexer

SpecChain == InitChain /\ [][Next]_vars

(***************************************************************************)
(* Push-back                                                               *)
(***************************************************************************)
IsPrefix(a, b) == Len(a) <= Len(b) /\ \A k \in 1..Len(a) : a[k] = b[k]

Pulls == \E c \in {"outer", "inner"} : NextCall(c)

\* C1: a send of a value v that is not None right after a token was received
\* returns None and yields no token, and the pull that follows returns
\* exactly v, again with no further token of the document produced.
C1_PushBackRoundTrip ==
    [][/\ \A v \in PushVals :
            (pc = "Y1" /\ SendCall(v)) =>
                (ret' = RetNone /\ sent' = v /\ out' = out)
       /\ (pc = "Y2" /\ round = 0 /\ ret = RetNone /\ Pulls) =>
                (ret' = RetValue(sent) /\ out' = out)]_vars

\* C1 witness: the last token of a two-token document was pushed back and
\* the next pull has returned the pushed value.
C1_Witness ==
    /\ pc = "Y3"
    /\ round = 1
    /\ credit = MaxSend - 1
    /\ ret = RetValue(sent)
    /\ i + 1 = Len(s)
    /\ Len(out) = 2

\* C2: whatever push-backs the consumer makes, the tokens the scan yields
\* (the pulled values without the re-yielded ones) are those the lexer
\* yields for the document when nothing is pushed back, and a pull that
\* leaves a suspension point resumes at the next character with an empty
\* lexeme.
C2_PushBackDoesNotDisturb ==
    /\ [](/\ IsPrefix(out, list_lexer(s, g).toks)
          /\ pc \in {"done", "raised"} => out = list_lexer(s, g).toks)
    /\ [][(pc \in {"Y1", "Y3"} /\ Pulls) =>
            (i' = i + 1 /\ lexeme' = <<>> /\ pc' = "run")]_vars

\* C2 witness: a document of two tokens or more was lexed to its end with a
\* push-back and its re-yield on the way.
C2_Witness ==
    /\ pc = "done"
    /\ credit < MaxSend
    /\ sent # None
    /\ Len(out) >= 2

\* C3: after a pushed-back value was re-yielded the consumer may push back
\* again: the send returns None, the following pull returns that value, and
\* no step between the suspension points changes the scan index, the
\* lexeme, the comment state or the tokens yielded.
C3_SequentialPushBacks ==
    [][/\ \A v \in PushVals :
            (pc = "Y3" /\ SendCall(v)) => (ret' = RetNone /\ pc' = "Y2")
       /\ (pc = "Y2" /\ round >= 1 /\ Pulls) =>
            (ret' = RetValue(sent) /\ pc' = "Y3")
       /\ (pc \in {"Y1", "Y2", "Y3"} /\ pc' \in {"Y2", "Y3"}) =>
            UNCHANGED <<i, lexeme, in_comment, end_comment, out>>]_vars

\* C3 witness: two push/pull rounds were completed at one suspension point.
C3_Witness ==
    /\ pc = "Y3"
    /\ round = 2
    /\ ret = RetValue(sent)

(***************************************************************************)
(* Nested consumer loops                                                   *)
(***************************************************************************)
LoopOrder(c) == IF c = "outer" THEN 0 ELSE IF c = "inner" THEN 1 ELSE 2

PulledBy(c) ==
    LET idx == {k \in 1..Len(by) : by[k] = c}
        RECURSIVE pick(_)
        pick(k) == IF k > Len(out) THEN <<>>
                   ELSE IF k \in idx THEN <<out[k]>> \o pick(k + 1)
                   ELSE pick(k + 1)
    IN  pick(1)

\* C4: however the pulls are divided between the outer loop and a nested
\* loop that stops at Sentinel, the tokens pulled are the document's tokens
\* in order, each delivered to one pull, and the tokens the outer loop pulls
\* after the nested loop returned are those that follow Sentinel.
C4_ResumePreservesOrder ==
    /\ Len(by) = Len(out)
    /\ IsPrefix(out, list_lexer(s, g).toks)
    /\ \A j, k \in 1..Len(by) : j < k => LoopOrder(by[j]) <= LoopOrder(by[k])
    /\ \A k \in 1..Len(by) :
          by[k] = "after" =>
              /\ k > 1
              /\ by[k - 1] = "after" \/
                   (by[k - 1] = "inner" /\ out[k - 1] = Sentinel)
    /\ \A k \in 1..Len(by) :
          (by[k] = "inner" /\ out[k] = Sentinel) =>
              /\ \A j \in (k + 1)..Len(by) : by[j] = "after"
              /\ (pc = "done" /\ loop = "after") =>
                    PulledBy("after") =
                        SubSeq(list_lexer(s, g).toks, k + 1,
                               Len(list_lexer(s, g).toks))

\* C4 witness: the stream was drained with tokens pulled by the outer loop,
\* by the nested loop up to Sentinel, and by the outer loop afterwards.
C4_Witness ==
    /\ pc = "done"
    /\ loop = "after"
    /\ \E j, k, m \in 1..Len(by) :
          by[j] = "outer" /\ by[k] = "inner" /\ by[m] = "after"

(***************************************************************************)
(* Whitespace                                                              *)
(***************************************************************************)
\* space, tab, LF, CR, VT, FF
WhitespaceCodes == {32, 9, 10, 13, 11, 12}

\* The document from position k on, split on runs of whitespace; w is the
\* word being read.
RECURSIVE split_ws(_, _, _)
split_ws(d, k, w) ==
    IF k > Len(d)
    THEN IF w = <<>> THEN <<>> ELSE <<w>>
    ELSE IF d[k] \in WhitespaceCodes
    THEN (IF w = <<>> THEN <<>> ELSE <<w>>) \o split_ws(d, k + 1, <<>>)
    ELSE split_ws(d, k + 1, Append(w, d[k]))

\* C5: on a document of whitespace and ordinary characters the tokens
\* yielded are the document split on runs of whitespace: they are a prefix
\* of the split while the scan runs and the whole split at the end of the
\* stream, no token holds a whitespace character, and nothing is raised.
C5_WhitespaceSplit ==
    /\ pc # "raised"
    /\ IsPrefix(out, split_ws(s, 1, <<>>))
    /\ pc = "done" => out = split_ws(s, 1, <<>>)
    /\ \A k \in 1..Len(out) : Range(out[k]) \cap WhitespaceCodes = {}

\* C5 witness: two tokens separated by a run of two different whitespace
\* characters were yielded and the stream has ended.
C5_Witness ==
    /\ pc = "done"
    /\ Len(out) = 2
    /\ \E k \in 2..(Len(s) - 2) :
          /\ s[k] \in WhitespaceCodes
          /\ s[k + 1] \in WhitespaceCodes
          /\ s[k] # s[k + 1]

(***************************************************************************)
(* Reserved characters                                                     *)
(***************************************************************************)
\* The character the loop is about to process is a sign that the character
\* after it makes the start of a number.
SignBeforeDigit ==
    /\ s[i + 1] \in numeric_start_chars
    /\ IsDigit(next_char(s, i))

\* C6: under the base grammar, when the loop processes a reserved character
\* outside a comment that is not a sign followed by a digit, the iteration
\* yields the token made of that character alone: the text before it was
\* yielded earlier, and the pull that follows starts a new lexeme.
C6_ReservedStandalone ==
    [][/\ (/\ pc = "run"
           /\ i < Len(s)
           /\ g = "PVL"
           /\ ~in_comment
           /\ s[i + 1] \in reserved_characters
           /\ ~SignBeforeDigit) =>
              /\ pc' = "Y1"
              /\ ret' = RetToken(<<s[i + 1]>>)
              /\ out' = Append(out, <<s[i + 1]>>)
       /\ (pc = "Y1" /\ Pulls) => lexeme' = <<>>]_vars

\* C6 witness: a reserved character with text right before and right after
\* it was yielded alone.
C6_Witness ==
    /\ pc = "Y1"
    /\ i >= 1
    /\ i + 2 <= Len(s)
    /\ s[i + 1] \in reserved_characters
    /\ s[i] = ChA
    /\ s[i + 2] = ChA
    /\ ret = RetToken(<<s[i + 1]>>)
    /\ Len(out) >= 2
    /\ out[Len(out) - 1][Len(out[Len(out) - 1])] = ChA

(***************************************************************************)
(* Comments                                                                *)
(***************************************************************************)
\* Whether p occurs in d at the 1-based position k.
OccursAt(d, p, k) ==
    /\ k >= 1
    /\ k + Len(p) - 1 <= Len(d)
    /\ \A j \in 1..Len(p) : d[k + j - 1] = p[j]

\* The first position at or after k where p occurs in d, 0 when none.
RECURSIVE find(_, _, _)
find(d, p, k) ==
    IF k + Len(p) - 1 > Len(d) THEN 0
    ELSE IF OccursAt(d, p, k) THEN k
    ELSE find(d, p, k + 1)

\* The comments of d from position k on that open with /* and close with the
\* next */ : pairs <<first, last>> of 1-based positions.
RECURSIVE closed_comments(_, _)
closed_comments(d, k) ==
    IF k + 1 > Len(d) THEN {}
    ELSE IF OccursAt(d, <<47, 42>>, k)
    THEN LET q == find(d, <<42, 47>>, k + 2)
         IN  IF q = 0 THEN {}
             ELSE {<<k, q + 1>>} \cup closed_comments(d, q + 2)
    ELSE closed_comments(d, k + 1)

\* C7: under the base grammar every comment that opens with /* and closes
\* with the next */ is yielded as one token that is the source substring
\* from the opener through the closer.
C7_CommentVerbatim ==
    (pc = "done" /\ g = "PVL") =>
        \A c \in closed_comments(s, 1) :
            \E k \in 1..Len(out) : out[k] = SubSeq(s, c[1], c[2])

RECURSIVE all_comments(_, _)
all_comments(d, k) ==
    IF k > Len(d) THEN {}
    ELSE IF OccursAt(d, <<47, 42>>, k)
    THEN LET q == find(d, <<42, 47>>, k + 2)
         IN  IF q = 0 THEN {}
             ELSE {<<k, q + 1>>} \cup all_comments(d, q + 2)
    ELSE IF d[k] = 35
    THEN LET q == find(d, <<10>>, k + 1)
         IN  IF q = 0 THEN {<<k, Len(d)>>}
             ELSE {<<k, q>>} \cup all_comments(d, q + 1)
    ELSE all_comments(d, k + 1)

HasSlashOrStar(d) == \E k \in 1..Len(d) : d[k] \in {47, 42}

\* C9: with the comment pairs /* */ and '#' to newline, on a document with
\* no '/' and no '*': every '#' met outside a comment starts a comment that
\* is one token, from the '#' through the next newline or to the end of
\* input; the tokens that start with '#' are these comments and no other
\* token holds a '#' or a newline.
C9_HashComment ==
    (g = "Omni" /\ ~HasSlashOrStar(s)) =>
        /\ pc # "raised"
        /\ pc = "done" =>
            /\ \A c \in all_comments(s, 1) :
                  \E k \in 1..Len(out) : out[k] = SubSeq(s, c[1], c[2])
            /\ \A k \in 1..Len(out) :
                  IF out[k][1] = 35
                  THEN \E c \in all_comments(s, 1) :
                          out[k] = SubSeq(s, c[1], c[2])
                  ELSE Range(out[k]) \cap {35, 10} = {}
            /\ Cardinality({k \in 1..Len(out) : out[k][1] = 35}) =
                  Cardinality(all_comments(s, 1))

\* C9 witness: text, then a '#' comment holding a space or a reserved
\* character and closed by a newline, then text, all lexed.
C9_Witness ==
    /\ pc = "done"
    /\ g = "Omni"
    /\ Len(out) = 3
    /\ out[1] = <<ChA>>
    /\ out[2][1] = 35
    /\ out[2][Len(out[2])] = 10
    /\ Range(out[2]) \cap {SP, EQUAL} # {}
    /\ out[3] = <<ChA>>

\* C10: under the Omni comment table a document with comments of both kinds
\* and bare '/' or '*' is lexed to the end of the stream, nothing is raised,
\* and each comment is one token.
C10_OmniBothComments ==
    g = "Omni" =>
        /\ pc # "raised"
        /\ pc = "done" =>
              \A c \in all_comments(s, 1) :
                  \E k \in 1..Len(out) : out[k] = SubSeq(s, c[1], c[2])

(***************************************************************************)
(* Signs before digits                                                     *)
(***************************************************************************)
\* The character the loop has just passed is a sign and the character it
\* is at is a digit.
SignThenDigit ==
    /\ 1 <= i
    /\ i < Len(s)
    /\ s[i] \in numeric_start_chars
    /\ IsDigit(s[i + 1])
    /\ ~in_comment

\* C11 as stated: a sign outside a comment that a digit follows is not
\* yielded on its own, it is the first character of the token that holds
\* the digit: the lexeme is the sign alone when the loop reaches the digit
\* and the sign and the digit when the digit ends the token.
C11_SignStartsToken ==
    SignThenDigit =>
        /\ pc = "run" => lexeme = <<s[i]>>
        /\ pc = "Y1" => lexeme = <<s[i], s[i + 1]>>

\* C11 amended: a sign outside a comment that a digit follows is never
\* yielded on its own, it is in the token that holds the digit; when the
\* sign is a reserved character ('+') it is the first character of that
\* token, whatever precedes it.
C11_SignStaysWithDigits ==
    SignThenDigit =>
        /\ pc = "run" =>
             /\ lexeme # <<>>
             /\ lexeme[Len(lexeme)] = s[i]
             /\ s[i] \in reserved_characters => lexeme = <<s[i]>>
        /\ pc = "Y1" =>
             /\ Len(lexeme) >= 2
             /\ SubSeq(lexeme, Len(lexeme) - 1, Len(lexeme)) = <<s[i], s[i + 1]>>
             /\ s[i] \in reserved_characters => lexeme = <<s[i], s[i + 1]>>

\* The token '+7' is yielded right after text and a reserved character.
C11_Witness ==
    /\ SignThenDigit
    /\ pc = "Y1"
    /\ i = 3
    /\ s[1] = ChA
    /\ s[2] = EQUAL
    /\ s[3] = PLUS
    /\ out = <<<<ChA>>, <<EQUAL>>, <<PLUS, Dig7>>>>

(***************************************************************************)
(* Numeric literals                                                        *)
(***************************************************************************)
\* C12: every whitespace-delimited word of the document that is_numeric
\* accepts as a whole is yielded as one token: at the end of the stream it
\* is among the tokens.
C12_NumericLiteralWhole ==
    pc = "done" =>
        \A k \in 1..Len(split_ws(s, 1, <<>>)) :
            is_numeric(split_ws(s, 1, <<>>)[k]) =>
                \E j \in 1..Len(out) : out[j] = split_ws(s, 1, <<>>)[k]

(***************************************************************************)
(* Value errors                                                            *)
(***************************************************************************)
\* Building or classifying the token raises ValueError at the character
\* the loop is at.
TokenRaisesHere ==
    /\ pc = "run"
    /\ i < Len(s)
    /\ LET r == lex_char(s[i + 1], prev_char(s, i), next_char(s, i),
                         lexeme, in_comment, end_comment, g)
       IN  r.exc = "" /\ raises(s, i, r.lexeme, r.in_comment, g, bad)

\* C13: when building or classifying a token raises ValueError, the pull
\* in progress raises a LexerError that carries the document and an offset
\* and returns no token; every later pull ends with StopIteration and
\* yields no token.
C13_ValueErrorStopsScan ==
    [][/\ TokenRaisesHere =>
            /\ pc' = "raised"
            /\ ret' = RetExc("LexerError")
            /\ err' # NoError
            /\ err'.doc = s
            /\ err'.pos \in (0 - 1)..Len(s)
            /\ out' = out
       /\ (pc = "raised" /\ ret.kind = "LexerError") =>
            /\ pc' = "raised"
            /\ ret' \in {ret, RetStop}
            /\ out' = out]_vars

\* A token was yielded, the next one raised a LexerError, and a later pull
\* found the generator finished.
C13_Witness ==
    /\ pc = "raised"
    /\ err # NoError
    /\ err.doc = s
    /\ ret = RetStop
    /\ Len(out) = 1
    /\ Len(s) = MaxErrorLen

(***************************************************************************)
(* Line and column of a LexerError                                         *)
(***************************************************************************)
\* The 0-based indices below p at which d holds a newline.
NewlinesBefore(d, p) == {k \in 0..(p - 1) : d[k + 1] = LF}

\* The 0-based index of the last newline before p, -1 when there is none.
LastNewlineBefore(d, p) ==
    IF NewlinesBefore(d, p) = {}
    THEN 0 - 1
    ELSE CHOOSE k \in NewlinesBefore(d, p) :
             \A j \in NewlinesBefore(d, p) : j <= k

\* C14: for an offset pos with 0 <= pos <= len(doc), LexerError(msg, doc,
\* pos) has lineno = 1 + the number of newlines in doc[0:pos] and colno =
\* pos - the index of the last newline before pos (-1 when none); both are
\* at least 1 and colno is the 1-based place of the character at pos among
\* the characters of its line.
C14_LineAndColumn ==
    (err # NoError /\ 0 <= err.pos /\ err.pos <= Len(err.doc)) =>
        /\ err.lineno = 1 + Cardinality(NewlinesBefore(err.doc, err.pos))
        /\ err.colno = err.pos - LastNewlineBefore(err.doc, err.pos)
        /\ err.lineno >= 1
        /\ err.colno >= 1
        /\ err.colno =
             Cardinality({k \in 0..err.pos :
                            \A j \in k..(err.pos - 1) : err.doc[j + 1] # LF})

\* An error on the third line, in its second column.
C14_Witness ==
    /\ err # NoError
    /\ err.doc = <<LF, LF, ChA, ChA>>
    /\ err.pos = 3
    /\ err.lineno = 3
    /\ err.colno = 2

(***************************************************************************)
(* Rebuilding a LexerError                                                 *)
(***************************************************************************)
\* C20: the error rebuilt from the (msg, doc, pos) that __reduce__ returns
\* has the lineno, colno, pos, doc and formatted message of the original,
\* for every document and offset.
C20_ReduceRoundTrip ==
    rebuilt # NoError =>
        /\ rebuilt.lineno = err.lineno
        /\ rebuilt.colno = err.colno
        /\ rebuilt.pos = err.pos
        /\ rebuilt.doc = err.doc
        /\ rebuilt.args = err.args

\* An error on the second line, with a message, has been rebuilt.
C20_Witness ==
    /\ rebuilt # NoError
    /\ err.msg = <<ChB>>
    /\ err.doc = <<ChA, LF, ChA>>
    /\ err.pos = 2
    /\ rebuilt.lineno = 2
    /\ rebuilt.colno = 1
    /\ rebuilt.args = errmsg(<<ChB>>, 2, 1, 2)

(***************************************************************************)
(* Unsupported comment pairs                                               *)
(***************************************************************************)
\* C15: with a grammar that holds a multi-character comment pair other
\* than '/* */' the lexer yields no token and does not reach the end of
\* any document: it raises before that, whatever the document holds.
C15_UnsupportedPairRejected ==
    g = "Custom" =>
        /\ out = <<>>
        /\ pc \notin {"Y1", "Y2", "Y3", "done"}

(***************************************************************************)
(* Grammar sharing                                                         *)
(***************************************************************************)
\* C16: no step of either lexer changes the grammar, and each of two
\* lexers that share it, their steps interleaved in any order, yields the
\* tokens it yields alone on its document: a prefix of them while it runs,
\* all of them when it has ended.
C16_GrammarSharing ==
    /\ [][g' = g]_vars
    /\ [](/\ IsPrefix(out, list_lexer(s, g).toks)
          /\ IsPrefix(peer.out, list_lexer(peer.s, g).toks)
          /\ pc \in {"done", "raised"} => out = list_lexer(s, g).toks
          /\ peer.pc \in {"done", "raised"} =>
                 peer.out = list_lexer(peer.s, g).toks)

\* Both lexers have ended, each with its own tokens, the first one after
\* the second had started and before it ended.
C16_Witness ==
    /\ pc = "done"
    /\ peer.pc = "done"
    /\ g = "Omni"
    /\ s = <<ChA, HASH>>
    /\ peer.s = <<HASH, ChA>>
    /\ out = <<<<ChA>>, <<HASH>>>>
    /\ peer.out = <<<<HASH, ChA>>>>

(***************************************************************************)
(* Character sets                                                          *)
(***************************************************************************)
\* C17: char_allowed of the base grammar returns TRUE exactly for the code
\* points 9, 10, 12, 13, 32..126 and 160..255, and FALSE for 0..8, 11,
\* 14..31, 127..159 and those above 255; a call leaves the grammar as it
\* is, and a second call with the same character returns the same.
C17_BaseCharAllowed ==
    /\ []((g = "PVL" /\ ch # NoChar) =>
            /\ allowed <=> \/ ch \in {9, 10, 12, 13}
                           \/ 32 <= ch /\ ch <= 126
                           \/ 160 <= ch /\ ch <= 255
            /\ (ch \in 0..8 \/ ch = 11 \/ ch \in 14..31 \/ ch \in 127..159
                \/ ch > 255) => ~allowed)
    /\ [][g = "PVL" =>
            /\ g' = g
            /\ (ch # NoChar /\ ch' = ch) => allowed' = allowed]_vars

\* The base grammar has accepted the no-break space.
C17_Witness ==
    /\ g = "PVL"
    /\ ch = 160
    /\ allowed

\* The control characters that ODL accepts and the base grammar rejects.
AsciiControls == (0..8) \cup {11} \cup (14..31) \cup {127}

\* C18 as stated: every character that ODLgrammar.char_allowed accepts has
\* a code point of at most 127 and is accepted by the base grammar's
\* char_allowed.
C18_OdlWithinBase ==
    (g = "ODL" /\ ch # NoChar /\ allowed) =>
        /\ ch <= 127
        /\ grammar_char_allowed(ch)

\* C18 amended: every character that ODLgrammar.char_allowed accepts has a
\* code point of at most 127; it is accepted by the base grammar's
\* char_allowed too unless it is one of the control characters 0..8, 11,
\* 14..31 and 127, which ODL accepts and the base grammar rejects.
C18_OdlIsAscii ==
    (g = "ODL" /\ ch # NoChar) =>
        /\ allowed => ch <= 127
        /\ (allowed /\ ch \notin AsciiControls) => grammar_char_allowed(ch)
        /\ ch \in AsciiControls => (allowed /\ ~grammar_char_allowed(ch))

\* ODL has accepted the vertical tab, which the base grammar rejects.
C18_Witness ==
    /\ g = "ODL"
    /\ ch = VT
    /\ allowed
    /\ ~grammar_char_allowed(ch)

(***************************************************************************)
(* Reserved keywords                                                       *)
(***************************************************************************)
\* C19 as stated: in every grammar reserved_keywords is END_GROUP,
\* END_OBJECT and END, and holds no block-opening keyword.
C19_ClosingKeywordsOnly ==
    /\ reserved_keywords(g) = {"END_GROUP", "END_OBJECT", "END"}
    /\ \A p \in aggregation_keywords : p[1] \notin reserved_keywords(g)

\* C19 amended: in every grammar reserved_keywords is the keywords of the
\* aggregation keyword map, opening and closing, and the document
\* terminator: GROUP, BEGIN_GROUP, END_GROUP, OBJECT, BEGIN_OBJECT,
\* END_OBJECT and END; every aggregation keyword has its closing
\* counterpart in it.
C19_AggregationKeywordsAndEnd ==
    /\ reserved_keywords(g) =
         {"GROUP", "BEGIN_GROUP", "END_GROUP", "OBJECT", "BEGIN_OBJECT",
          "END_OBJECT", "END"}
    /\ \A p \in aggregation_keywords :
          p[1] \in reserved_keywords(g) /\ p[2] \in reserved_keywords(g)

\* The ODL grammar, in use, reserves an opening keyword.
C19_Witness ==
    /\ g = "ODL"
    /\ ch # NoChar
    /\ "BEGIN_OBJECT" \in reserved_keywords(g)
    /\ "END" \in reserved_keywords(g)

(***************************************************************************)
(* End of the buffer                                                       *)
(***************************************************************************)
\* C21: when the last character of the document has been processed and the
\* lexeme is not empty, the lexeme is yielded as the last token, inside an
\* unterminated comment too; when the stream has ended the lexeme is empty
\* and the last token ends with the last character accumulated.
C21_EndOfBufferFlush ==
    /\ [][(/\ pc = "run"
           /\ i + 1 = Len(s)
           /\ pc' # "raised"
           /\ lexeme' # <<>>) =>
              /\ pc' = "Y1"
              /\ ret' = RetToken(lexeme')
              /\ out' = Append(out, lexeme')]_vars
    /\ [](pc = "done" => lexeme = <<>>)

\* An unterminated '#' comment is yielded at the end of the document, after
\* the text before it.
C21_Witness ==
    /\ pc = "Y1"
    /\ in_comment
    /\ i + 1 = Len(s)
    /\ Len(s) = 4
    /\ out = <<<<ChA>>, <<HASH, SP, ChA>>>>
    /\ ret = RetToken(<<HASH, SP, ChA>>)

(***************************************************************************)
(* Comments take priority                                                  *)
(***************************************************************************)
\* C22: when a character that is not the last one has been processed and
\* the lexer is inside a comment, no token is yielded and the character is
\* appended to the lexeme; a '/' followed by '*' may be appended one step
\* later, together with the '*', as the '/*' the code appends at the '*'.
C22_CommentPriority ==
    [][(/\ pc = "run"
        /\ i + 1 < Len(s)
        /\ pc' # "raised"
        /\ in_comment') =>
           /\ pc' = "run"
           /\ out' = out
           /\ \/ lexeme' = Append(lexeme, s[i + 1])
              \/ /\ s[i + 1] = SLASH
                 /\ s[i + 2] = STAR
                 /\ lexeme' = lexeme
              \/ /\ s[i + 1] = STAR
                 /\ prev_char(s, i) = SLASH
                 /\ lexeme' = lexeme \o <<SLASH, STAR>>]_vars

(***************************************************************************)
(* The comment matchers                                                    *)
(***************************************************************************)
\* C23: lex_multichar_comments with the /* */ table, on '*': when the
\* previous character is '/', '/*' is appended and in_comment becomes true
\* with the end marker as given, whatever in_comment was and whatever the
\* next character is; otherwise, when the next character is '/', '*/' is
\* appended, in_comment becomes false and the end marker None.
C23_StarOpensOrCloses ==
    (/\ call.fn = "lex_multichar_comments"
     /\ call.comments = <<SlashStarPair>>
     /\ call.char = STAR) =>
        /\ call.prev = SLASH =>
              call.res = Ret(call.lexeme \o <<SLASH, STAR>>, TRUE,
                             call.end_comment)
        /\ (call.prev # SLASH /\ call.next = SLASH) =>
              call.res = Ret(call.lexeme \o <<STAR, SLASH>>, FALSE, None)

\* A '*' between two '/' inside a comment opens: the open test comes first.
C23_Witness ==
    /\ call.fn = "lex_multichar_comments"
    /\ call.comments = <<SlashStarPair>>
    /\ call.char = STAR
    /\ call.prev = SLASH
    /\ call.next = SLASH
    /\ call.in_comment
    /\ call.end_comment = <<LF>>
    /\ call.lexeme = <<ChA>>
    /\ call.res = Ret(<<ChA, SLASH, STAR>>, TRUE, <<LF>>)

\* C24: lex_multichar_comments with the /* */ table returns in_comment and
\* the end marker as given unless the character is a '*' next to a '/'; a
\* '*' with no '/' beside it and a '/' with no '*' beside it are appended; a
\* '/' with a '*' before or after it appends nothing; any other character
\* returns the three values as given.
C24_OtherCasesKeepState ==
    (/\ call.fn = "lex_multichar_comments"
     /\ call.comments = <<SlashStarPair>>) =>
        LET beside(c) == call.prev = c \/ call.next = c
            kept(lx)  == call.res = Ret(lx, call.in_comment, call.end_comment)
        IN  /\ (call.char = STAR /\ ~beside(SLASH)) =>
                  kept(call.lexeme \o <<STAR>>)
            /\ (call.char = SLASH /\ ~beside(STAR)) =>
                  kept(call.lexeme \o <<SLASH>>)
            /\ (call.char = SLASH /\ beside(STAR)) => kept(call.lexeme)
            /\ call.char \notin {STAR, SLASH} => kept(call.lexeme)

\* A '/' right after a '*' inside a comment is not appended.
C24_Witness ==
    /\ call.fn = "lex_multichar_comments"
    /\ call.comments = <<SlashStarPair>>
    /\ call.char = SLASH
    /\ call.prev = STAR
    /\ call.next = ChA
    /\ call.in_comment
    /\ call.lexeme = <<ChA>>
    /\ call.res = Ret(<<ChA>>, TRUE, call.end_comment)

\* C25: lex_singlechar_comments in a comment appends the character, and
\* closes the comment (in_comment false, end marker None) exactly when the
\* character is the end marker; outside a comment a character that opens a
\* pair of the table is appended and the state becomes in-comment with the
\* pair's closer as end marker; any other character outside a comment
\* returns the three values as given.
C25_SinglecharTransitions ==
    call.fn = "lex_singlechar_comments" =>
        LET opens(k) == call.comments[k][1] = <<call.char>>
            appended == call.lexeme \o <<call.char>>
        IN  /\ call.res.exc = ""
            /\ call.in_comment =>
                  /\ call.res.lexeme = appended
                  /\ call.res.in_comment = (<<call.char>> # call.end_comment)
                  /\ call.res.end_comment =
                        IF call.res.in_comment THEN call.end_comment
                                               ELSE None
            /\ ~call.in_comment =>
                  /\ \A k \in 1..Len(call.comments) : opens(k) =>
                        call.res = Ret(appended, TRUE, call.comments[k][2])
                  /\ (\A k \in 1..Len(call.comments) : ~opens(k)) =>
                        call.res = Ret(call.lexeme, FALSE, call.end_comment)

\* A newline closes a '#' comment and is kept; the end marker becomes None.
C25_Witness ==
    /\ call.fn = "lex_singlechar_comments"
    /\ call.comments = <<HashPair>>
    /\ call.char = LF
    /\ call.in_comment
    /\ call.end_comment = <<LF>>
    /\ call.lexeme = <<ChA>>
    /\ call.res = Ret(<<ChA, LF>>, FALSE, None)

\* C26: lex_multichar_comments raises ValueError when the comments tuple is
\* empty and NotImplementedError when the tuple holds a pair other than
\* ('/*', '*/'), whatever the character, the neighbours and the state given,
\* and returns nothing.
C26_BadTablesRejected ==
    call.fn = "lex_multichar_comments" =>
        LET given(e) == call.res = Raise(call.lexeme, call.in_comment,
                                         call.end_comment, e)
        IN  /\ call.comments = <<>> => given("ValueError")
            /\ (\E k \in 1..Len(call.comments) :
                    call.comments[k] # SlashStarPair) =>
                  given("NotImplementedError")
            /\ call.comments = <<SlashStarPair>> => call.res.exc = ""

\* The tuple of the unit test, with a character that is no comment character.
C26_Witness ==
    /\ call.fn = "lex_multichar_comments"
    /\ call.comments = <<SlashStarPair, HashPair>>
    /\ call.char = ChA
    /\ call.prev = ChA
    /\ call.next = ChA
    /\ call.res.exc = "NotImplementedError"

(***************************************************************************)
(* Character conservation                                                  *)
(***************************************************************************)
\* The concatenation of the tokens of a sequence.
RECURSIVE Flatten(_)
Flatten(q) == IF q = <<>> THEN <<>> ELSE Head(q) \o Flatten(Tail(q))

\* The document from position k on without the whitespace that lies outside
\* its /* */ comments; a comment that is not closed runs to the end.
RECURSIVE without_outer_ws(_, _)
without_outer_ws(d, k) ==
    IF k > Len(d) THEN <<>>
    ELSE IF OccursAt(d, <<47, 42>>, k)
    THEN LET q == find(d, <<42, 47>>, k + 2)
         IN  IF q = 0 THEN SubSeq(d, k, Len(d))
             ELSE SubSeq(d, k, q + 1) \o without_outer_ws(d, q + 2)
    ELSE IF d[k] \in WhitespaceCodes
    THEN without_outer_ws(d, k + 1)
    ELSE <<d[k]>> \o without_outer_ws(d, k + 1)

\* C27: under the base grammar, at the end of the stream the tokens yielded,
\* concatenated in order, are the document without the whitespace that lies
\* outside comments.
C27_CharacterConservation ==
    (pc = "done" /\ g = "PVL") => Flatten(out) = without_outer_ws(s, 1)

(***************************************************************************)
(* Tokens are not empty                                                    *)
(***************************************************************************)
\* C28: every token a pull returns, and every token yielded, has at least
\* one character; the pull that follows a yield starts from an empty lexeme.
C28_NoEmptyToken ==
    /\ [](/\ ret.kind = "token" => ret.val # <<>>
          /\ \A k \in 1..Len(out) : out[k] # <<>>)
    /\ [][(pc \in {"Y1", "Y3"} /\ pc' = "run") => lexeme' = <<>>]_vars

\* After a first token, the scan is resumed with an empty lexeme and a
\* second token has been yielded past whitespace.
C28_Witness ==
    /\ pc = "Y1"
    /\ Len(out) = 2
    /\ s = <<ChA, SP, ChA>>
    /\ ret = RetToken(<<ChA>>)
    /\ lexeme = <<ChA>>

(***************************************************************************)
(* Termination                                                             *)
(***************************************************************************)
\* C29: a consumer that only pulls reaches the end of the stream; a pull
\* after a token resumes one character further, every token uses up at
\* least one character of its own, and so there are never more tokens than
\* characters in the document.
C29_Termination ==
    /\ <>(pc = "done")
    /\ [][(pc = "Y1" /\ pc' = "run") => i' = i + 1]_vars
    /\ [](/\ i <= Len(s)
          /\ Len(out) <= i + (IF pc = "Y1" THEN 1 ELSE 0)
          /\ Len(out) <= Len(s))

\* The stream of '===' has ended after as many tokens as characters.
C29_Witness ==
    /\ pc = "done"
    /\ ret = RetStop
    /\ s = <<EQUAL, EQUAL, EQUAL>>
    /\ Len(out) = Len(s)

(***************************************************************************)
(* Push-backs in a row                                                     *)
(***************************************************************************)
\* C30: a send made right after a send, with no pull between them, returns
\* the value of the first send and leaves that value as the one held; its
\* own value is dropped: a pull returns a pushed-back value only as the
\* value held, which such a send never sets.  The pull after the two sends
\* goes on with the scan at the next character, with an empty lexeme and no
\* value held, and the tokens yielded stay those of the document.
C30_ChainedPushBacks ==
    /\ [][/\ \A v \in PushVals :
                (pc = "Y2" /\ SendCall(v)) =>
                    /\ ret' = RetValue(sent)
                    /\ t' = sent
                    /\ sent' = v
                    /\ pc' = "Y3"
                    /\ out' = out
          /\ (Pulls /\ ret'.kind = "value") => (pc = "Y2" /\ ret'.val = t)
          /\ (pc = "Y3" /\ round = 0 /\ Pulls) =>
                /\ pc' = "run"
                /\ ret' = Pending
                /\ t' = None
                /\ lexeme' = <<>>
                /\ i' = i + 1]_vars
    /\ [](IsPrefix(out, list_lexer(s, g).toks))

\* Two different values were sent in a row after the first token: the second
\* send has returned the first value.
C30_Witness ==
    /\ pc = "Y3"
    /\ round = 0
    /\ Len(out) = 1
    /\ t = <<ChA>>
    /\ sent = <<ChB, ChB>>
    /\ ret = RetValue(<<ChA>>)

(***************************************************************************)
(* The offset of a LexerError raised by the lexer                          *)
(***************************************************************************)
\* C31: the offset of a LexerError the lexer raises lies inside the
\* document and is the index of the first character of the lexeme that was
\* being accumulated: the lexeme is found in the document at that offset.
C31_OffsetInsideDocument ==
    (pc = "raised" /\ ret.kind = "LexerError" /\ err # NoError) =>
        /\ 0 <= err.pos
        /\ err.pos < Len(s)
        /\ OccursAt(s, lexeme, err.pos + 1)

=============================================================================
